---- MODULE Spec2Model ----
(***************************************************************************)
(* Model of the build-automation orchestrator (src/build_automation.py):   *)
(* language / build-system detection, dependency analysis, build           *)
(* execution through per-language handlers and the failure-recovery path.  *)
(***************************************************************************)
EXTENDS Integers, Sequences, FiniteSets, TLC

(***************************************************************************)
(* Bounds of the model.                                                    *)
(***************************************************************************)
\* largest number of entries of a repository tree drawn for detection
MaxTreeSize == 3

(***************************************************************************)
(* The repository tree.  An entry is a file or directory name together     *)
(* with its place: directly at the repository root or in a subdirectory.   *)
(* A name is a stem and an extension, so that glob patterns ('*.py') and   *)
(* literal patterns ('setup.py') are matched as fnmatch matches them.      *)
(***************************************************************************)
N(stem, ext) == [stem |-> stem, ext |-> ext]

SourceNames ==
    { N("main", "py"), N("setup", "py"), N("requirements", "txt"),
      N("pyproject", "toml"),
      N("index", "js"), N("package", "json"), N("yarn", "lock"),
      N("app", "ts"), N("tsconfig", "json"),
      N("Main", "java"), N("pom", "xml"), N("build", "gradle"),
      N("main", "go"), N("go", "mod"),
      N("lib", "rs"), N("Cargo", "toml"),
      N("README", "md") }

DirNames ==
    { N(".venv", ""), N("node_modules", ""), N("build", ""), N("dist", ""),
      N("target", ""), N("__pycache__", "") }

Names == SourceNames \cup DirNames

Locs == {"root", "sub"}

P(loc, name) == [loc |-> loc, name |-> name]

Paths == { P(l, n) : l \in Locs, n \in Names }

AtRoot(name) == P("root", name)

\* os.path.exists(os.path.join(repo_path, name))
Exists(t, name) == AtRoot(name) \in t

(***************************************************************************)
(* _detect_primary_language                                                *)
(***************************************************************************)
Languages == << "python", "javascript", "typescript", "java", "go", "rust" >>

Star == "*"

language_patterns ==
    [ python     |-> << N(Star, "py"), N("requirements", "txt"),
                        N("setup", "py"), N("pyproject", "toml") >>,
      javascript |-> << N(Star, "js"), N("package", "json") >>,
      typescript |-> << N(Star, "ts"), N("tsconfig", "json") >>,
      java       |-> << N(Star, "java"), N("pom", "xml"),
                        N("build", "gradle") >>,
      go         |-> << N(Star, "go"), N("go", "mod") >>,
      rust       |-> << N(Star, "rs"), N("Cargo", "toml") >> ]

\* fnmatch of a base name against one pattern
Matches(pat, name) ==
    /\ pat.ext = name.ext
    /\ (pat.stem = Star \/ pat.stem = name.stem)

\* len(list(Path(repo_path).rglob(pattern))): every entry of the tree, at
\* any depth, whose base name matches
RGlobCount(t, pat) == Cardinality({ f \in t : Matches(pat, f.name) })

RECURSIVE SumPatterns(_, _, _)
SumPatterns(t, pats, i) ==
    IF i > Len(pats) THEN 0
    ELSE RGlobCount(t, pats[i]) + SumPatterns(t, pats, i + 1)

\* counts[lang]
LangCount(t, lang) == SumPatterns(t, language_patterns[lang], 1)

\* the comparison max() uses to replace its running best: strictly greater,
\* so the first of several maximal items is kept
MaxReplacesLast(candidate, best) == candidate >= best

MaxReplaces(candidate, best) == candidate > best

RECURSIVE MaxScan(_, _, _)
MaxScan(t, i, best) ==
    IF i > Len(Languages) THEN best
    ELSE MaxScan(t, i + 1,
                 IF MaxReplaces(LangCount(t, Languages[i]), LangCount(t, best))
                 THEN Languages[i] ELSE best)

\* max(counts.items(), key=lambda x: x[1])[0]
DetectPrimaryLanguage(t) == MaxScan(t, 2, Languages[1])

(***************************************************************************)
(* _detect_build_system                                                    *)
(***************************************************************************)
M(file, system) == [file |-> file, system |-> system]

build_systems ==
    [ python     |-> << M(N("setup", "py"), "setuptools"),
                        M(N("pyproject", "toml"), "poetry"),
                        M(N("requirements", "txt"), "pip") >>,
      javascript |-> << M(N("package", "json"), "npm"),
                        M(N("yarn", "lock"), "yarn") >>,
      java       |-> << M(N("pom", "xml"), "maven"),
                        M(N("build", "gradle"), "gradle") >>,
      go         |-> << M(N("go", "mod"), "go") >>,
      rust       |-> << M(N("Cargo", "toml"), "cargo") >> ]

\* the existence test of the marker loop
MarkerPresentAnywhere(t, file) == \E f \in t : f.name = file

MarkerPresent(t, file) == Exists(t, file)

RECURSIVE MarkerScan(_, _, _)
MarkerScan(t, markers, i) ==
    IF i > Len(markers) THEN "unknown"
    ELSE IF MarkerPresent(t, markers[i].file) THEN markers[i].system
    ELSE MarkerScan(t, markers, i + 1)

DetectBuildSystem(t, language) ==
    IF language \in DOMAIN build_systems
    THEN MarkerScan(t, build_systems[language], 1)
    ELSE "unknown"

(***************************************************************************)
(* Values.  A Python value that may be None or a list is a record, so that *)
(* the two can be told apart; a call ends by returning a value or by       *)
(* raising an exception.                                                   *)
(***************************************************************************)
None == [isNone |-> TRUE, items |-> << >>]

List(s) == [isNone |-> FALSE, items |-> s]

Ret(v) == [kind |-> "return", value |-> v]

RaiseMsg(e, m) == [kind |-> "raise", exc |-> e, msg |-> m]

Raise(e) == RaiseMsg(e, "")

Pending == [kind |-> "pending"]

(***************************************************************************)
(* Manifest contents.  Text is a sequence of characters; a manifest that   *)
(* cannot be opened or decoded is not readable.                            *)
(***************************************************************************)
\* largest number of lines of requirements.txt
MaxLines == 2
\* largest number of entries of one dependency group of a keyed manifest
MaxEntries == 2
\* largest number of tokens of go.mod
MaxGoLen == 4

SeqsUpTo(S, n) == UNION { [1..k -> S] : k \in 0..n }

Space == " "

\* lines of requirements.txt: empty, blank, a bare name, a name between
\* spaces, a pin with '==' and an arbitrary-equality pin with '==='
Lines ==
    { << >>, << Space >>, << "a" >>, << Space, "a", Space >>,
      << "a", "=", "=", "1" >>, << "a", "=", "=", "=", "1" >> }

\* str.strip() of a line: leading and trailing whitespace removed
RECURSIVE LStrip(_)
LStrip(s) == IF s # << >> /\ Head(s) = Space THEN LStrip(Tail(s)) ELSE s

RECURSIVE RStrip(_)
RStrip(s) ==
    IF s # << >> /\ s[Len(s)] = Space
    THEN RStrip(SubSeq(s, 1, Len(s) - 1)) ELSE s

Strip(s) == RStrip(LStrip(s))

\* [line.strip() for line in lines if line.strip()]
RECURSIVE StrippedNonBlank(_)
StrippedNonBlank(lines) ==
    IF lines = << >> THEN << >>
    ELSE IF Strip(Head(lines)) # << >>
         THEN << Strip(Head(lines)) >> \o StrippedNonBlank(Tail(lines))
         ELSE StrippedNonBlank(Tail(lines))

RequirementsFiles ==
    [readable : BOOLEAN, lines : SeqsUpTo(Lines, MaxLines)]

SetupFiles == [readable : BOOLEAN]

\* package.json: what json.load makes of it
PkgNames == { << "p" >>, << "q" >> }

PkgVersions == { << "1" >> }

\* the keys of a JSON object or a TOML table are distinct
DistinctNames(es) ==
    \A i, j \in 1..Len(es) : es[i].name = es[j].name => i = j

Entries ==
    { es \in SeqsUpTo([name : PkgNames, version : PkgVersions], MaxEntries) :
        DistinctNames(es) }

JsonGroups ==
    { [kind |-> "absent", entries |-> << >>],
      [kind |-> "nonobject", entries |-> << >>] }
    \cup { [kind |-> "object", entries |-> e] : e \in Entries }

JsonDocs ==
    { [kind |-> "invalid"], [kind |-> "nonobject"] }
    \cup { [kind |-> "object", dependencies |-> d, devDependencies |-> v] :
             d \in JsonGroups, v \in JsonGroups }

PackageFiles == [readable : BOOLEAN, json : JsonDocs]

\* go.mod: 'require (' is one token, the other tokens are single characters
ReqOpen == "require ("

Close == ")"

NL == "\n"

GoTokens == { ReqOpen, Close, NL, Space, "d" }

GoModFiles == [readable : BOOLEAN, text : SeqsUpTo(GoTokens, MaxGoLen)]

\* Cargo.toml: what toml.load makes of it
CargoValues ==
    { [kind |-> "str", version |-> << "1" >>],
      [kind |-> "table", hasVersion |-> TRUE, version |-> << "2" >>],
      [kind |-> "table", hasVersion |-> FALSE, version |-> << >>],
      [kind |-> "other"] }

CargoEntries ==
    { es \in SeqsUpTo([name : PkgNames, value : CargoValues], MaxEntries) :
        DistinctNames(es) }

TomlDocs ==
    { [kind |-> "invalid"],
      [kind |-> "table", dependencies |-> [kind |-> "absent", entries |-> << >>]],
      [kind |-> "table", dependencies |-> [kind |-> "nontable", entries |-> << >>]] }
    \cup { [kind |-> "table", dependencies |-> [kind |-> "table", entries |-> e]] :
             e \in CargoEntries }

CargoFiles == [readable : BOOLEAN, toml : TomlDocs]

DefaultContent ==
    [ requirements |-> [readable |-> TRUE, lines |-> << >>],
      setup        |-> [readable |-> TRUE],
      package      |-> [readable |-> TRUE,
                        json |-> [kind |-> "object",
                                  dependencies |-> [kind |-> "absent", entries |-> << >>],
                                  devDependencies |-> [kind |-> "absent", entries |-> << >>]]],
      gomod        |-> [readable |-> TRUE, text |-> << >>],
      cargo        |-> [readable |-> TRUE,
                        toml |-> [kind |-> "table",
                                  dependencies |-> [kind |-> "absent", entries |-> << >>]]] ]

(***************************************************************************)
(* Dependency analyzers.  Each has a body that may raise and an            *)
(* 'except Exception' clause around the whole body.                        *)
(***************************************************************************)
\* the clause of every analyzer: log the error and return []
AnalyzerExceptPropagates(outcome) == outcome

AnalyzerExcept(outcome) ==
    IF outcome.kind = "raise" THEN Ret(List(<< >>)) ELSE outcome

\* _analyze_python_dependencies, the statements inside try
PythonDependenciesBody(t, c) ==
    LET req == IF Exists(t, N("requirements", "txt"))
               THEN IF c.requirements.readable
                    THEN Ret(StrippedNonBlank(c.requirements.lines))
                    ELSE Raise("OSError")
               ELSE Ret(<< >>)
    IN  IF req.kind = "raise" THEN req
        ELSE IF Exists(t, N("setup", "py")) /\ ~c.setup.readable
             THEN Raise("OSError")
             ELSE Ret(List(req.value))

AnalyzePythonDependencies(t, c) == AnalyzerExcept(PythonDependenciesBody(t, c))

\* f"{name}@{version}" for every item of a group, in declaration order
RECURSIVE AtDescriptors(_)
AtDescriptors(entries) ==
    IF entries = << >> THEN << >>
    ELSE << Head(entries).name \o << "@" >> \o Head(entries).version >>
         \o AtDescriptors(Tail(entries))

\* _analyze_javascript_dependencies, the statements inside try
JavascriptDependenciesDevFirst(t, c) ==
    IF ~Exists(t, N("package", "json")) THEN Ret(List(<< >>))
    ELSE IF ~c.package.readable THEN Raise("OSError")
    ELSE LET data == c.package.json
         IN  IF data.kind = "invalid" THEN Raise("JSONDecodeError")
             ELSE IF data.kind = "nonobject" THEN Raise("AttributeError")
             ELSE IF data.dependencies.kind = "nonobject"
                     \/ data.devDependencies.kind = "nonobject"
                  THEN Raise("AttributeError")
                  ELSE Ret(List(AtDescriptors(data.devDependencies.entries)
                                \o AtDescriptors(data.dependencies.entries)))

JavascriptDependenciesBody(t, c) ==
    IF ~Exists(t, N("package", "json")) THEN Ret(List(<< >>))
    ELSE IF ~c.package.readable THEN Raise("OSError")
    ELSE LET data == c.package.json
         IN  IF data.kind = "invalid" THEN Raise("JSONDecodeError")
             ELSE IF data.kind = "nonobject" THEN Raise("AttributeError")
             ELSE IF data.dependencies.kind = "nonobject"
                     \/ data.devDependencies.kind = "nonobject"
                  THEN Raise("AttributeError")
                  ELSE Ret(List(AtDescriptors(data.dependencies.entries)
                                \o AtDescriptors(data.devDependencies.entries)))

AnalyzeJavascriptDependencies(t, c) ==
    AnalyzerExcept(JavascriptDependenciesBody(t, c))

\* index of the first occurrence of tok in s, 0 when there is none
FirstIndex(s, tok) ==
    IF \E i \in 1..Len(s) : s[i] = tok
    THEN CHOOSE i \in 1..Len(s) :
            s[i] = tok /\ \A j \in 1..(i - 1) : s[j] # tok
    ELSE 0

\* s.split(tok)[0]
BeforeFirstWhole(s, tok) == s

BeforeFirst(s, tok) ==
    IF FirstIndex(s, tok) = 0 THEN s ELSE SubSeq(s, 1, FirstIndex(s, tok) - 1)

\* s.split(tok)[1], for s containing tok
AfterFirst(s, tok) ==
    BeforeFirst(SubSeq(s, FirstIndex(s, tok) + 1, Len(s)), tok)

\* the lines of a text, split at line ends
RECURSIVE SplitLines(_)
SplitLines(s) ==
    IF s = << >> THEN << >>
    ELSE IF FirstIndex(s, NL) = 0 THEN << s >>
    ELSE << SubSeq(s, 1, FirstIndex(s, NL) - 1) >>
         \o SplitLines(SubSeq(s, FirstIndex(s, NL) + 1, Len(s)))

\* _analyze_go_dependencies, the statements inside try
GoDependenciesBody(t, c) ==
    IF ~Exists(t, N("go", "mod")) THEN Ret(List(<< >>))
    ELSE IF ~c.gomod.readable THEN Raise("OSError")
    ELSE IF FirstIndex(c.gomod.text, ReqOpen) = 0 THEN Ret(List(<< >>))
    ELSE LET require_block == BeforeFirst(AfterFirst(c.gomod.text, ReqOpen), Close)
         IN  Ret(List(StrippedNonBlank(SplitLines(require_block))))

AnalyzeGoDependencies(t, c) == AnalyzerExcept(GoDependenciesBody(t, c))

\* the descriptors of the entries of [dependencies] of Cargo.toml
RECURSIVE CargoDescriptors(_)
CargoDescriptors(entries) ==
    IF entries = << >> THEN << >>
    ELSE LET e == Head(entries)
             eq == << Space, "=", Space >>
         IN  (IF e.value.kind = "str"
              THEN << e.name \o eq \o e.value.version >>
              ELSE IF e.value.kind = "table"
              THEN << e.name \o eq \o
                      (IF e.value.hasVersion THEN e.value.version ELSE << "*" >>) >>
              ELSE << >>)
             \o CargoDescriptors(Tail(entries))

\* _analyze_rust_dependencies, the statements inside try
RustDependenciesBody(t, c) ==
    IF ~Exists(t, N("Cargo", "toml")) THEN Ret(List(<< >>))
    ELSE IF ~c.cargo.readable THEN Raise("OSError")
    ELSE LET cargo_data == c.cargo.toml
         IN  IF cargo_data.kind = "invalid" THEN Raise("TomlDecodeError")
             ELSE IF cargo_data.dependencies.kind = "absent" THEN Ret(List(<< >>))
             ELSE IF cargo_data.dependencies.kind = "nontable"
                  THEN Raise("AttributeError")
                  ELSE Ret(List(CargoDescriptors(cargo_data.dependencies.entries)))

AnalyzeRustDependencies(t, c) == AnalyzerExcept(RustDependenciesBody(t, c))

\* _analyze_java_dependencies: the body is 'pass'
AnalyzeJavaDependencies(t, c) == Ret(None)

\* _analyze_dependencies
AnalyzeDependencies(t, c, language) ==
    IF language = "python" THEN AnalyzePythonDependencies(t, c)
    ELSE IF language = "javascript" THEN AnalyzeJavascriptDependencies(t, c)
    ELSE IF language = "java" THEN AnalyzeJavaDependencies(t, c)
    ELSE IF language = "go" THEN AnalyzeGoDependencies(t, c)
    ELSE IF language = "rust" THEN AnalyzeRustDependencies(t, c)
    ELSE Ret(List(<< >>))

(***************************************************************************)
(* detect_build_instructions                                               *)
(***************************************************************************)
\* _create_setup_steps, _create_build_commands, _create_test_commands:
\* the body of each is 'pass'
CreateSetupSteps(language, build_system) == None

CreateBuildCommands(language, build_system) == None

CreateTestCommands(language, build_system) == None

BuildInstructions(language, build_system, dependencies, setup_steps, build_commands, test_commands) ==
    [ language       |-> language,
      build_system   |-> build_system,
      dependencies   |-> dependencies,
      setup_steps    |-> setup_steps,
      build_commands |-> build_commands,
      test_commands  |-> test_commands ]

DetectBuildInstructions(t, c) ==
    LET language == DetectPrimaryLanguage(t)
        build_system == DetectBuildSystem(t, language)
        dependencies == AnalyzeDependencies(t, c, language)
    IN  IF dependencies.kind = "raise"
        THEN Raise("BuildError")
        ELSE Ret(BuildInstructions(language, build_system, dependencies.value,
                                   CreateSetupSteps(language, build_system),
                                   CreateBuildCommands(language, build_system),
                                   CreateTestCommands(language, build_system)))

(***************************************************************************)
(* Build execution: inputs.                                                *)
(***************************************************************************)
\* largest number of build commands of the instructions passed in
MaxCmds == 2
\* largest exit status of an external process
MaxExitStatus == 1
\* largest number of entries into execute_build the model follows
MaxAttempts == 3

\* a command line and the words str.split() cuts it into
Cmd(text, words) == [text |-> text, words |-> words]

Split(cmd) == cmd.words

InputCommands ==
    { Cmd("install -e .", << "install", "-e", "." >>),
      Cmd("run build", << "run", "build" >>) }

\* languages of the instructions passed to execute_build
InstructionLanguages ==
    { "python", "Python", "javascript", "typescript", "java", "go", "rust",
      "unknown", "cobol" }

\* str.lower() on the languages above
Lower(language) == IF language = "Python" THEN "python" ELSE language

OptLists(S, n) == { None } \cup { List(q) : q \in SeqsUpTo(S, n) }

InputInstructions ==
    { BuildInstructions(l, "unknown", List(<< >>), List(<< >>), b, List(<< >>)) :
        l \in InstructionLanguages, b \in OptLists(InputCommands, MaxCmds) }

\* self.build_handlers
build_handlers ==
    [ python     |-> "_handle_python_build",
      javascript |-> "_handle_javascript_build",
      typescript |-> "_handle_javascript_build",
      java       |-> "_handle_java_build",
      go         |-> "_handle_go_build",
      rust       |-> "_handle_rust_build" ]

\* how subprocess.run(..., check=True) can end: the process exits with a
\* status, it could not be started, or it never exits on its own
ProcessEnds ==
    { [kind |-> "exit", status |-> n] : n \in 0..MaxExitStatus }
    \cup { [kind |-> "oserror", status |-> -1], [kind |-> "hang", status |-> -1] }

\* subprocess.run is called without timeout=: it returns, or raises, only
\* once the process has ended
RunReturns(e) == e.kind # "hang"

SucceededAnyExit(e) == e.kind = "exit"

Succeeded(e) == e.kind = "exit" /\ e.status = 0

\* what subprocess.run raises for an end that is not a success
RunError(e) ==
    IF e.kind = "exit" THEN RaiseMsg("CalledProcessError", "non-zero exit status")
    ELSE RaiseMsg("OSError", "cannot start process")

VenvArgv == << "python", "-m", "venv", ".venv" >>

NpmInstallArgv == << "npm", "install" >>

PipPath == ".venv/bin/pip"

\* the directories _clean_build_artifacts removes
build_dirsWithoutNodeModules ==
    << N("build", ""), N("dist", ""), N("target", ""), N("__pycache__", "") >>

build_dirs ==
    << N("build", ""), N("dist", ""), N("target", ""), N("node_modules", ""),
       N("__pycache__", "") >>

\* str.replace('==', '>=') on a descriptor: left to right, not overlapping
RECURSIVE ReplaceEqEq(_)
ReplaceEqEq(d) ==
    IF Len(d) < 2 THEN d
    ELSE IF d[1] = "=" /\ d[2] = "="
         THEN << ">", "=" >> \o ReplaceEqEq(SubSeq(d, 3, Len(d)))
         ELSE << d[1] >> \o ReplaceEqEq(Tail(d))

RECURSIVE MapReplace(_)
MapReplace(ds) ==
    IF ds = << >> THEN << >>
    ELSE << ReplaceEqEq(Head(ds)) >> \o MapReplace(Tail(ds))

RetrySetupSteps ==
    << "Clean build artifacts", "Update package manager",
       "Install dependencies with relaxed constraints" >>

RetryBuildCommands(language) ==
    IF language = "python"
    THEN << Cmd("pip install --upgrade pip",
                << "pip", "install", "--upgrade", "pip" >>),
            Cmd("pip install -r requirements.txt --upgrade",
                << "pip", "install", "-r", "requirements.txt", "--upgrade" >>) >>
    ELSE IF language \in { "javascript", "typescript" }
    THEN << Cmd("npm cache clean --force",
                << "npm", "cache", "clean", "--force" >>),
            Cmd("npm install --no-package-lock",
                << "npm", "install", "--no-package-lock" >>) >>
    ELSE << >>

\* test_commands=[] of the instructions of a retry
RetryTestCommandsOfPlanner == << Cmd("pytest", << "pytest" >>) >>

RetryTestCommands == << >>

\* _modify_build_instructions
ModifyBuildInstructions(t, c) ==
    LET language == DetectPrimaryLanguage(t)
        build_system == DetectBuildSystem(t, language)
        dependencies == AnalyzeDependencies(t, c, language)
    IN  IF dependencies.kind = "raise" \/ dependencies.value.isNone
        THEN RaiseMsg("BuildError", "Could not modify build instructions")
        ELSE Ret(BuildInstructions(language, build_system,
                                   List(MapReplace(dependencies.value.items)),
                                   List(RetrySetupSteps),
                                   List(RetryBuildCommands(language)),
                                   List(RetryTestCommands)))

(***************************************************************************)
(* State.                                                                  *)
(***************************************************************************)
VARIABLES
    tree,       \* the entries of the repository checkout
    content,    \* the contents of its manifests
    call,       \* the operation the caller invoked
    ret,        \* how that call ended
    pc,         \* the position of the build pipeline
    instr,      \* the instructions of the running execute_build
    cmdIdx,     \* the index of the next build command of the handler
    depth,      \* the number of _handle_build_failure calls not yet returned
    attempts,   \* the number of entries into execute_build
    spawned,    \* the external processes run so far
    errlog,     \* the records written to the logger
    pipes,      \* the positions of pipelines run side by side on the checkout
    memory_cache, \* CacheManager.memory_cache
    file_cache, \* the files of the cache directory
    now,        \* the time datetime.utcnow() reads
    tasks,      \* the calls of the cache manager that tasks of one loop are in
    downloads   \* the directories below base_download_dir and the downloads made

fsVars == << tree, content >>

callVars == << call, ret >>

buildVars == << pc, instr, cmdIdx, depth, attempts, spawned, errlog >>

concVars == << pipes >>

cacheVars == << memory_cache, file_cache, now, tasks >>

downloadVars == << downloads >>

vars == << tree, content, call, ret, pc, instr, cmdIdx, depth, attempts,
           spawned, errlog, pipes, memory_cache, file_cache, now, tasks,
           downloads >>

\* pipelines that may run side by side, none of them started
Pipes == { 1, 2 }

\* a pipeline: where it is, the language and the number of build commands
\* still to run of its instructions, whether it is inside
\* _handle_build_failure, and how its call ended
IdlePipe ==
    [pc |-> "idle", language |-> "", left |-> 0, depth |-> 0, ret |-> Pending]

IdlePipes == [p \in Pipes |-> IdlePipe]

\* the slots of the cache: a category and a key
CacheKeys ==
    { [category |-> "repositories", key |-> "k"],
      [category |-> "analysis", key |-> "k"] }

NoEntry == [present |-> FALSE, data |-> "", cached_at |-> 0]

NoFile == [state |-> "absent", data |-> "", cached_at |-> 0]

\* the tasks of one event loop that call the cache manager, none of them
\* inside a call
Tasks == { 1, 2 }

IdleTask == [pc |-> "idle", key |-> "", category |-> "", data |-> "",
             cached_at |-> 0, detached |-> FALSE]

IdleTasks == [t \in Tasks |-> IdleTask]

\* nothing below base_download_dir and no download made
NoDownloads ==
    [dirs |-> [d \in { << "downloads", "utils" >>, << "downloads", "app" >> }
                 |-> [state |-> "absent", full_name |-> << >>]],
     log |-> << >>]

\* self.memory_cache = {} of __init__
EmptyMemory == [k \in CacheKeys |-> NoEntry]

EmptyFiles == [k \in CacheKeys |-> NoFile]

NoCall == [op |-> "none", language |-> ""]

NoInstructions ==
    BuildInstructions("", "", List(<< >>), List(<< >>), List(<< >>), List(<< >>))

\* a record of one subprocess.run call: the function that makes it, the
\* index of the build command it runs (0 when it runs none), its arguments
\* and working directory, the attempt it belongs to and how it ended
Process(by, idx, argv, cwd, end) ==
    [by |-> by, idx |-> idx, argv |-> argv, cwd |-> cwd,
     attempt |-> attempts, end |-> end]

\* a record of one logger call
Logged(level, msg, argv, status) ==
    [level |-> level, msg |-> msg, argv |-> argv, status |-> status]

(***************************************************************************)
(* execute_build                                                           *)
(***************************************************************************)
\* 'except subprocess.CalledProcessError' of execute_build
ExecuteBuildExceptAnything(o) == o.kind = "raise"

ExecuteBuildExcept(o) == o.kind = "raise" /\ o.exc = "CalledProcessError"

\* 'except subprocess.CalledProcessError' of the build handlers: log the
\* error and return False
HandlerExceptPropagates(o) == o

HandlerExcept(o) ==
    IF o.kind = "raise" /\ o.exc = "CalledProcessError" THEN Ret("False") ELSE o

\* A call leaves the pipeline with o, lg being the log by then: a value is
\* passed on by each 'return await' around it, an exception is caught by the
\* innermost _handle_build_failure, which logs it and returns False.
UnwindPropagates(o, lg) ==
    /\ pc' = "done"
    /\ depth' = 0
    /\ ret' = o
    /\ errlog' = lg

Unwind(o, lg) ==
    /\ pc' = "done"
    /\ depth' = 0
    /\ IF depth > 0 /\ o.kind = "raise"
       THEN /\ ret' = Ret("False")
            /\ errlog' = Append(lg, Logged("error", "Build retry failed", << >>, -1))
       ELSE /\ ret' = o
            /\ errlog' = lg

\* The try block of the running execute_build ends with o, lg being the log
\* by then.  A CalledProcessError enters _handle_build_failure; any other
\* end leaves execute_build.
Finish(o, lg) ==
    IF ExecuteBuildExcept(o)
    THEN /\ attempts < MaxAttempts
         /\ pc' = "cleaning"
         /\ depth' = depth + 1
         /\ errlog' = Append(lg, Logged("error", "Build execution failed", << >>, -1))
         /\ UNCHANGED ret
    ELSE Unwind(o, lg)

\* a caller invokes execute_build(repo_path, instructions)
CallExecuteBuild ==
    /\ pc = "idle"
    /\ UNCHANGED << concVars, cacheVars, downloadVars >>
    /\ \E i \in InputInstructions : instr' = i
    /\ pc' = "setup_env"
    /\ attempts' = 1
    /\ call' = [op |-> "execute_build", language |-> ""]
    /\ UNCHANGED << fsVars, ret, cmdIdx, depth, spawned, errlog >>

\* 'except Exception' of _setup_environment: whatever is raised inside
\* leaves as a BuildError
SetupEnvironmentExceptPropagates(o) == o

SetupEnvironmentExcept(o) ==
    IF o.kind = "raise"
    THEN RaiseMsg("BuildError", "Failed to setup environment") ELSE o

\* _setup_environment, and the statement of execute_build that awaits it
SetupEnvironment ==
    /\ pc = "setup_env"
    /\ UNCHANGED << concVars, cacheVars, downloadVars >>
    /\ UNCHANGED << content, call, instr, cmdIdx, attempts >>
    /\ LET language == Lower(instr.language)
           isPy == language = "python"
           isJs == language \in { "javascript", "typescript" }
           envDir == IF isPy THEN N(".venv", "") ELSE N("node_modules", "")
       IN  IF (isPy \/ isJs) /\ ~Exists(tree, envDir)
           THEN \E e \in ProcessEnds :
                  /\ spawned' = Append(spawned,
                        Process("_setup_environment", 0,
                                IF isPy THEN VenvArgv ELSE NpmInstallArgv,
                                IF isPy THEN "inherited" ELSE "repo", e))
                  /\ IF ~RunReturns(e)
                     THEN /\ pc' = "blocked"
                          /\ UNCHANGED << tree, depth, ret, errlog >>
                     ELSE IF Succeeded(e)
                     THEN /\ tree' = tree \cup { AtRoot(envDir) }
                          /\ pc' = "dispatch"
                          /\ UNCHANGED << depth, ret, errlog >>
                     ELSE /\ UNCHANGED tree
                          /\ Finish(SetupEnvironmentExcept(RunError(e)),
                                    Append(errlog, Logged("error", "Environment setup failed",
                                                          << >>, e.status)))
           ELSE /\ pc' = "dispatch"
                /\ UNCHANGED << tree, depth, ret, spawned, errlog >>

\* the handler lookup of execute_build; the bodies of the java, go and rust
\* handlers are 'pass'
Dispatch ==
    /\ pc = "dispatch"
    /\ UNCHANGED << concVars, cacheVars, downloadVars >>
    /\ UNCHANGED << fsVars, call, instr, attempts, spawned >>
    /\ LET language == Lower(instr.language)
       IN  IF language \notin DOMAIN build_handlers
           THEN /\ Finish(RaiseMsg("BuildError", "Unsupported language"), errlog)
                /\ UNCHANGED cmdIdx
           ELSE IF build_handlers[language] = "_handle_python_build"
           THEN /\ pc' = "py_venv"
                /\ UNCHANGED << cmdIdx, depth, ret, errlog >>
           ELSE IF build_handlers[language] = "_handle_javascript_build"
           THEN /\ pc' = "js_install"
                /\ UNCHANGED << cmdIdx, depth, ret, errlog >>
           ELSE /\ Finish(Ret("None"), errlog)
                /\ UNCHANGED cmdIdx

\* one subprocess.run of a handler ends with e: a success moves the handler
\* to nextPc, a failure ends the handler, and a process that never exits
\* leaves the handler waiting in subprocess.run
HandlerRun(by, idx, argv, cwd, e, failMsg, nextPc, nextIdx, nextTree) ==
    /\ spawned' = Append(spawned, Process(by, idx, argv, cwd, e))
    /\ IF ~RunReturns(e)
       THEN /\ pc' = "blocked"
            /\ UNCHANGED << cmdIdx, tree, depth, ret, errlog >>
       ELSE IF Succeeded(e)
       THEN /\ pc' = nextPc
            /\ cmdIdx' = nextIdx
            /\ tree' = nextTree
            /\ UNCHANGED << depth, ret, errlog >>
       ELSE /\ UNCHANGED << cmdIdx, tree >>
            /\ Finish(HandlerExcept(RunError(e)),
                      IF HandlerExcept(RunError(e)).kind = "return"
                      THEN Append(errlog, Logged("error", failMsg, argv, e.status))
                      ELSE errlog)

\* the loop over instructions.build_commands of a handler is over, or
\* cannot start because build_commands is None
HandlerLoopEnd ==
    /\ UNCHANGED << tree, cmdIdx, spawned >>
    /\ IF instr.build_commands.isNone
       THEN Finish(RaiseMsg("TypeError", "'NoneType' object is not iterable"), errlog)
       ELSE Finish(Ret("True"), errlog)

\* _handle_python_build: python -m venv
PythonVenv ==
    /\ pc = "py_venv"
    /\ UNCHANGED << concVars, cacheVars, downloadVars >>
    /\ UNCHANGED << content, call, instr, attempts >>
    /\ \E e \in ProcessEnds :
         HandlerRun("_handle_python_build", 0, VenvArgv, "inherited", e, "Python build failed",
                    "py_cmds", 1, tree \cup { AtRoot(N(".venv", "")) })

\* _handle_python_build: the loop over build_commands and 'return True'
PythonCommands ==
    /\ pc = "py_cmds"
    /\ UNCHANGED << concVars, cacheVars, downloadVars >>
    /\ UNCHANGED << content, call, instr, attempts >>
    /\ IF ~instr.build_commands.isNone /\ cmdIdx <= Len(instr.build_commands.items)
       THEN \E e \in ProcessEnds :
              HandlerRun("_handle_python_build", cmdIdx,
                         << PipPath >> \o Split(instr.build_commands.items[cmdIdx]),
                         "inherited", e, "Python build failed",
                         "py_cmds", cmdIdx + 1, tree)
       ELSE HandlerLoopEnd

\* _handle_javascript_build: npm install
JavascriptInstall ==
    /\ pc = "js_install"
    /\ UNCHANGED << concVars, cacheVars, downloadVars >>
    /\ UNCHANGED << content, call, instr, attempts >>
    /\ \E e \in ProcessEnds :
         HandlerRun("_handle_javascript_build", 0, NpmInstallArgv, "repo", e, "JavaScript build failed",
                    "js_cmds", 1, tree \cup { AtRoot(N("node_modules", "")) })

\* _handle_javascript_build: the loop over build_commands and 'return True'
JavascriptCommands ==
    /\ pc = "js_cmds"
    /\ UNCHANGED << concVars, cacheVars, downloadVars >>
    /\ UNCHANGED << content, call, instr, attempts >>
    /\ IF ~instr.build_commands.isNone /\ cmdIdx <= Len(instr.build_commands.items)
       THEN \E e \in ProcessEnds :
              HandlerRun("_handle_javascript_build", cmdIdx,
                         Split(instr.build_commands.items[cmdIdx]),
                         "repo", e, "JavaScript build failed",
                         "js_cmds", cmdIdx + 1, tree)
       ELSE HandlerLoopEnd

(***************************************************************************)
(* _handle_build_failure                                                   *)
(***************************************************************************)
\* a caller invokes _handle_build_failure(repo_path, error)
CallHandleBuildFailure ==
    /\ pc = "idle"
    /\ UNCHANGED << concVars, cacheVars, downloadVars >>
    /\ pc' = "cleaning"
    /\ depth' = 1
    /\ call' = [op |-> "_handle_build_failure", language |-> ""]
    /\ UNCHANGED << fsVars, ret, instr, cmdIdx, attempts, spawned, errlog >>

\* 'except Exception' of _clean_build_artifacts: whatever is raised inside
\* is logged and the function returns
CleanBuildArtifactsExceptPropagates(o) == o

CleanBuildArtifactsExcept(o) == IF o.kind = "raise" THEN Ret("None") ELSE o

\* _clean_build_artifacts: the directories of build_dirs that exist are
\* removed in order; when shutil.rmtree fails at the failAt-th one the
\* error is logged and the loop is left
CleanBuildArtifacts ==
    /\ pc = "cleaning"
    /\ UNCHANGED << concVars, cacheVars, downloadVars >>
    /\ UNCHANGED << content, call, instr, cmdIdx, attempts, spawned >>
    /\ \E failAt \in 0..Len(build_dirs) :
         /\ failAt > 0 => Exists(tree, build_dirs[failAt])
         /\ LET last == IF failAt = 0 THEN Len(build_dirs) ELSE failAt - 1
            IN  tree' = tree \ { AtRoot(build_dirs[j]) : j \in 1..last }
         /\ LET o == IF failAt = 0 THEN Ret("None")
                     ELSE CleanBuildArtifactsExcept(Raise("OSError"))
            IN  IF o.kind = "raise"
                THEN Unwind(o, errlog)
                ELSE /\ pc' = "modify"
                     /\ errlog' = IF failAt = 0 THEN errlog
                                  ELSE Append(errlog,
                                              Logged("warning",
                                                     "Failed to clean build artifacts",
                                                     << >>, -1))
                     /\ UNCHANGED << ret, depth >>

\* _handle_build_failure after the cleanup: _modify_build_instructions and
\* the call of execute_build with what it returns
RetryBuild ==
    /\ pc = "modify"
    /\ UNCHANGED << concVars, cacheVars, downloadVars >>
    /\ UNCHANGED << fsVars, call, cmdIdx, spawned >>
    /\ LET m == ModifyBuildInstructions(tree, content)
       IN  IF m.kind = "raise"
           THEN /\ Unwind(m, Append(errlog,
                                    Logged("error", "Failed to modify build instructions",
                                           << >>, -1)))
                /\ UNCHANGED << instr, attempts >>
           ELSE /\ instr' = m.value
                /\ attempts' = attempts + 1
                /\ pc' = "setup_env"
                /\ UNCHANGED << ret, depth, errlog >>

(***************************************************************************)
(* The build pipeline.                                                     *)
(***************************************************************************)
\* the entries of the checkouts a build starts from
PipelinePaths ==
    { AtRoot(N(".venv", "")), AtRoot(N("node_modules", "")),
      AtRoot(N("build", "")), P("sub", N("build", "")),
      AtRoot(N("requirements", "txt")), AtRoot(N("package", "json")),
      AtRoot(N("pom", "xml")) }

\* a requirements.txt with one exact pin
PinnedContent ==
    [DefaultContent EXCEPT !.requirements.lines = << << "a", "=", "=", "1" >> >>]

PipelineContents == { DefaultContent, PinnedContent }

Init ==
    /\ tree \in SUBSET PipelinePaths
    /\ content \in PipelineContents
    /\ content # DefaultContent
         => /\ Exists(tree, N("requirements", "txt"))
            /\ tree \subseteq { AtRoot(N("requirements", "txt")),
                                AtRoot(N(".venv", "")) }
    /\ call = NoCall
    /\ ret = Pending
    /\ pc = "idle"
    /\ instr = NoInstructions
    /\ cmdIdx = 0
    /\ depth = 0
    /\ attempts = 0
    /\ spawned = << >>
    /\ errlog = << >>
    /\ pipes = IdlePipes
    /\ memory_cache = EmptyMemory
    /\ file_cache = EmptyFiles
    /\ now = 0
    /\ tasks = IdleTasks
    /\ downloads = NoDownloads

Next ==
    \/ CallExecuteBuild
    \/ SetupEnvironment
    \/ Dispatch
    \/ PythonVenv
    \/ PythonCommands
    \/ JavascriptInstall
    \/ JavascriptCommands
    \/ CallHandleBuildFailure
    \/ CleanBuildArtifacts
    \/ RetryBuild

Spec == Init /\ [][Next]_vars

TypeOK ==
    /\ tree \subseteq Paths
    /\ pc \in { "idle", "setup_env", "dispatch", "py_venv", "py_cmds",
                "js_install", "js_cmds", "cleaning", "modify", "done",
                "blocked" }
    /\ depth \in 0..MaxAttempts
    /\ attempts \in 0..MaxAttempts
    /\ ret.kind \in { "pending", "return", "raise" }

(***************************************************************************)
(* Detection and analysis, applied to a checkout by a caller.              *)
(***************************************************************************)
\* names that also occur below the root
NestedNames ==
    { N("main", "py"), N("setup", "py"), N("index", "js"),
      N("package", "json"), N("pom", "xml"), N("go", "mod"),
      N("Cargo", "toml") }

DetectPaths ==
    { AtRoot(n) : n \in SourceNames } \cup { P("sub", n) : n \in NestedNames }

\* the trees of at most n entries
RECURSIVE TreesUpTo(_)
TreesUpTo(n) ==
    IF n = 0 THEN { {} }
    ELSE LET smaller == TreesUpTo(n - 1)
         IN  smaller \cup { t \cup { p } : t \in smaller, p \in DetectPaths }

\* checkouts whose manifests of one language vary in content
ManifestInputs ==
    { << t, [DefaultContent EXCEPT !.requirements = r, !.setup = u] >> :
        t \in SUBSET { AtRoot(N("requirements", "txt")), AtRoot(N("setup", "py")) },
        r \in RequirementsFiles, u \in SetupFiles }
    \cup
    { << t, [DefaultContent EXCEPT !.package = k] >> :
        t \in SUBSET { AtRoot(N("package", "json")) }, k \in PackageFiles }
    \cup
    { << t, [DefaultContent EXCEPT !.gomod = g] >> :
        t \in SUBSET { AtRoot(N("go", "mod")), AtRoot(N("main", "go")) },
        g \in GoModFiles }
    \cup
    { << t, [DefaultContent EXCEPT !.cargo = k] >> :
        t \in SUBSET { AtRoot(N("Cargo", "toml")) }, k \in CargoFiles }

DetectInputs ==
    { << t, DefaultContent >> : t \in TreesUpTo(MaxTreeSize) } \cup ManifestInputs

\* the languages _detect_build_system is called with
QueriedLanguages ==
    { Languages[i] : i \in 1..Len(Languages) } \cup { "unknown", "cobol" }

InitDetect ==
    /\ \E input \in DetectInputs :
         /\ tree = input[1]
         /\ content = input[2]
    /\ call = NoCall
    /\ ret = Pending
    /\ pc = "idle"
    /\ instr = NoInstructions
    /\ cmdIdx = 0
    /\ depth = 0
    /\ attempts = 0
    /\ spawned = << >>
    /\ errlog = << >>
    /\ pipes = IdlePipes
    /\ memory_cache = EmptyMemory
    /\ file_cache = EmptyFiles
    /\ now = 0
    /\ tasks = IdleTasks
    /\ downloads = NoDownloads

\* the caller applies op, which ends with o
Applied(op, language, o) ==
    /\ call' = [op |-> op, language |-> language]
    /\ ret' = o
    /\ pc' = "done"
    /\ UNCHANGED << fsVars, instr, cmdIdx, depth, attempts, spawned, errlog >>
    /\ UNCHANGED << concVars, cacheVars, downloadVars >>

CallDetectPrimaryLanguage ==
    /\ pc = "idle"
    /\ Applied("_detect_primary_language", "", Ret(DetectPrimaryLanguage(tree)))

CallDetectBuildSystem ==
    /\ pc = "idle"
    /\ \E language \in QueriedLanguages :
        Applied("_detect_build_system", language,
                Ret(DetectBuildSystem(tree, language)))

CallAnalyzePythonDependencies ==
    /\ pc = "idle"
    /\ Applied("_analyze_python_dependencies", "",
            AnalyzePythonDependencies(tree, content))

CallAnalyzeJavascriptDependencies ==
    /\ pc = "idle"
    /\ Applied("_analyze_javascript_dependencies", "",
            AnalyzeJavascriptDependencies(tree, content))

CallAnalyzeGoDependencies ==
    /\ pc = "idle"
    /\ Applied("_analyze_go_dependencies", "", AnalyzeGoDependencies(tree, content))

CallAnalyzeRustDependencies ==
    /\ pc = "idle"
    /\ Applied("_analyze_rust_dependencies", "", AnalyzeRustDependencies(tree, content))

CallDetectBuildInstructions ==
    /\ pc = "idle"
    /\ Applied("detect_build_instructions", "", DetectBuildInstructions(tree, content))

CallModifyBuildInstructions ==
    /\ pc = "idle"
    /\ Applied("_modify_build_instructions", "", ModifyBuildInstructions(tree, content))

NextDetect ==
    \/ CallDetectPrimaryLanguage
    \/ CallDetectBuildSystem
    \/ CallAnalyzePythonDependencies
    \/ CallAnalyzeJavascriptDependencies
    \/ CallAnalyzeGoDependencies
    \/ CallAnalyzeRustDependencies
    \/ CallDetectBuildInstructions
    \/ CallModifyBuildInstructions

SpecDetect == InitDetect /\ [][NextDetect]_vars

(***************************************************************************)
(* CacheManager (result_cache.py), used by one caller at a time.           *)
(***************************************************************************)
\* the cache_ttl the manager is constructed with, in ticks of the clock
CacheTtl == 1
\* the latest time the clock reaches
MaxNow == 3

\* the dictionaries a caller caches
CacheData == { "d1", "d2" }

\* a cached dictionary: its data and its '_cached_at'
Cached(d, at) == [isNone |-> FALSE, data |-> d, cached_at |-> at]

\* how the file write of cache_result ends: the file is written, opening
\* it fails and leaves it as it was, or writing fails after the file was
\* truncated
WriteEnds == { "ok", "open_fails", "write_fails" }

\* _is_cache_expired: a file that cannot be read or parsed is expired
IsCacheExpired(f, t) ==
    IF f.state # "valid" THEN TRUE ELSE (t - f.cached_at) > CacheTtl

\* what get_cached_result returns for slot k at time t when the memory
\* cache is mem and the files are files
GetCachedResultValue(mem, files, t, k) ==
    IF mem[k].present THEN Ret(Cached(mem[k].data, mem[k].cached_at))
    ELSE IF files[k].state = "absent" THEN Ret(None)
    ELSE IF IsCacheExpired(files[k], t) THEN Ret(None)
    ELSE Ret(Cached(files[k].data, files[k].cached_at))

\* a call of the cache manager ends with o
CacheCallEnds(op, o) ==
    /\ call' = [op |-> op, language |-> ""]
    /\ ret' = o
    /\ pc' = "done"
    /\ UNCHANGED << fsVars, instr, cmdIdx, depth, attempts, spawned, errlog >>
    /\ UNCHANGED << concVars, downloadVars >>

\* cache_result(key, data, category)
CallCacheResult ==
    /\ pc = "idle"
    /\ UNCHANGED << now, tasks >>
    /\ \E k \in CacheKeys, d \in CacheData, w \in WriteEnds :
         /\ memory_cache' =
              [memory_cache EXCEPT ![k] =
                  [present |-> TRUE, data |-> d, cached_at |-> now]]
         /\ file_cache' =
              IF w = "ok"
              THEN [file_cache EXCEPT ![k] =
                       [state |-> "valid", data |-> d, cached_at |-> now]]
              ELSE IF w = "write_fails"
              THEN [file_cache EXCEPT ![k] =
                       [state |-> "corrupt", data |-> "", cached_at |-> 0]]
              ELSE file_cache
         /\ CacheCallEnds("cache_result",
                          IF w = "ok" THEN Ret(None)
                          ELSE RaiseMsg("CacheError", "Failed to cache result"))

\* get_cached_result(key, category)
CallGetCachedResult ==
    /\ pc = "idle"
    /\ UNCHANGED << now, tasks >>
    /\ \E k \in CacheKeys :
         IF memory_cache[k].present
         THEN /\ UNCHANGED << memory_cache, file_cache >>
              /\ CacheCallEnds("get_cached_result",
                               Ret(Cached(memory_cache[k].data,
                                          memory_cache[k].cached_at)))
         ELSE IF file_cache[k].state = "absent"
         THEN /\ UNCHANGED << memory_cache, file_cache >>
              /\ CacheCallEnds("get_cached_result", Ret(None))
         ELSE IF IsCacheExpired(file_cache[k], now)
         THEN /\ memory_cache' = [memory_cache EXCEPT ![k] = NoEntry]
              /\ file_cache' = [file_cache EXCEPT ![k] = NoFile]
              /\ CacheCallEnds("get_cached_result", Ret(None))
         ELSE /\ memory_cache' =
                   [memory_cache EXCEPT ![k] =
                       [present |-> TRUE, data |-> file_cache[k].data,
                        cached_at |-> file_cache[k].cached_at]]
              /\ UNCHANGED file_cache
              /\ CacheCallEnds("get_cached_result",
                               Ret(Cached(file_cache[k].data,
                                          file_cache[k].cached_at)))

\* invalidate_cache(key, category)
CallInvalidateCache ==
    /\ pc = "idle"
    /\ UNCHANGED << now, tasks >>
    /\ \E k \in CacheKeys :
         /\ memory_cache' = [memory_cache EXCEPT ![k] = NoEntry]
         /\ file_cache' = [file_cache EXCEPT ![k] = NoFile]
    /\ CacheCallEnds("invalidate_cache", Ret(None))

\* clear_cache()
CallClearCache ==
    /\ pc = "idle"
    /\ UNCHANGED << now, tasks >>
    /\ memory_cache' = EmptyMemory
    /\ file_cache' = EmptyFiles
    /\ CacheCallEnds("clear_cache", Ret(None))

\* CacheManager(cache_dir, cache_ttl) is constructed again over the same
\* cache directory: the memory cache starts empty, the files are kept
ConstructCacheManager ==
    /\ pc = "idle"
    /\ memory_cache' = EmptyMemory
    /\ call' = NoCall
    /\ ret' = Pending
    /\ UNCHANGED << file_cache, now, tasks >>
    /\ UNCHANGED << fsVars, buildVars, concVars, downloadVars >>

\* the caller has the result of its call and may call again
CacheCallReturns ==
    /\ pc = "done"
    /\ pc' = "idle"
    /\ UNCHANGED << fsVars, callVars, instr, cmdIdx, depth, attempts,
                    spawned, errlog, concVars, cacheVars,
                    downloadVars >>

\* time passes between two calls
Tick ==
    /\ pc = "idle"
    /\ now < MaxNow
    /\ now' = now + 1
    /\ UNCHANGED << fsVars, callVars, buildVars, concVars, downloadVars,
                    memory_cache,
                    file_cache, tasks >>

InitCache ==
    /\ tree = {}
    /\ content = DefaultContent
    /\ call = NoCall
    /\ ret = Pending
    /\ pc = "idle"
    /\ instr = NoInstructions
    /\ cmdIdx = 0
    /\ depth = 0
    /\ attempts = 0
    /\ spawned = << >>
    /\ errlog = << >>
    /\ pipes = IdlePipes
    /\ memory_cache = EmptyMemory
    /\ file_cache = EmptyFiles
    /\ now = 0
    /\ tasks = IdleTasks
    /\ downloads = NoDownloads

NextCache ==
    \/ CallCacheResult
    \/ CallGetCachedResult
    \/ CallInvalidateCache
    \/ CallClearCache
    \/ ConstructCacheManager
    \/ CacheCallReturns
    \/ Tick

SpecCache == InitCache /\ [][NextCache]_vars

(***************************************************************************)
(* Two pipelines on one checkout.  Each pipeline is a caller of its own    *)
(* (a thread or a process) that runs execute_build or                      *)
(* _handle_build_failure on the same repo_path; an external process and    *)
(* the removal of the artifacts take time, so each has a beginning and an  *)
(* end, and the other pipeline may take steps in between.                  *)
(***************************************************************************)
\* the languages of the instructions a pipeline is started with
PipeLanguages == { "python", "javascript", "java" }

EnvDir(language) ==
    IF language = "python" THEN N(".venv", "") ELSE N("node_modules", "")

\* the call of pipeline p ends with o: an exception inside
\* _handle_build_failure becomes False, a CalledProcessError that reaches
\* execute_build enters _handle_build_failure
PipeEnds(p, o) ==
    IF ExecuteBuildExcept(o)
    THEN pipes' = [pipes EXCEPT ![p].pc = "clean_running", ![p].depth = 1]
    ELSE pipes' = [pipes EXCEPT ![p].pc = "done",
                                ![p].ret = IF pipes[p].depth > 0 /\ o.kind = "raise"
                                           THEN Ret("False") ELSE o]

\* pipeline p calls execute_build(repo_path, instructions)
PipeCallExecuteBuild ==
    \E p \in Pipes, language \in PipeLanguages, n \in 0..MaxCmds :
        /\ pipes[p].pc = "idle"
        /\ pipes' = [pipes EXCEPT ![p].pc = "setup_env",
                                  ![p].language = language,
                                  ![p].left = n]
        /\ UNCHANGED << fsVars, callVars, buildVars, cacheVars, downloadVars >>

\* _setup_environment of pipeline p: the environment directory is looked
\* for and, when it is missing, the process that creates it is started
PipeSetupEnvironment ==
    \E p \in Pipes :
        /\ pipes[p].pc = "setup_env"
        /\ pipes' = [pipes EXCEPT ![p].pc =
                        IF pipes[p].language \in { "python", "javascript", "typescript" }
                           /\ ~Exists(tree, EnvDir(pipes[p].language))
                        THEN "env_running" ELSE "dispatch"]
        /\ UNCHANGED << fsVars, callVars, buildVars, cacheVars, downloadVars >>

\* the process started by _setup_environment of pipeline p ends
PipeEnvironmentEnds ==
    \E p \in Pipes, e \in ProcessEnds :
        /\ pipes[p].pc = "env_running"
        /\ RunReturns(e)
        /\ IF Succeeded(e)
           THEN /\ tree' = tree \cup { AtRoot(EnvDir(pipes[p].language)) }
                /\ pipes' = [pipes EXCEPT ![p].pc = "dispatch"]
           ELSE /\ UNCHANGED tree
                /\ PipeEnds(p, RaiseMsg("BuildError", "Failed to setup environment"))
        /\ UNCHANGED << content, callVars, buildVars, cacheVars, downloadVars >>

\* the handler lookup of execute_build of pipeline p; the python and the
\* javascript handler start by creating the environment
PipeDispatch ==
    \E p \in Pipes :
        /\ pipes[p].pc = "dispatch"
        /\ LET language == Lower(pipes[p].language)
           IN  IF language \notin DOMAIN build_handlers
               THEN PipeEnds(p, RaiseMsg("BuildError", "Unsupported language"))
               ELSE IF build_handlers[language]
                          \in { "_handle_python_build", "_handle_javascript_build" }
               THEN pipes' = [pipes EXCEPT ![p].pc = "handler_env_running"]
               ELSE PipeEnds(p, Ret("None"))
        /\ UNCHANGED << fsVars, callVars, buildVars, cacheVars, downloadVars >>

\* python -m venv or npm install of the handler of pipeline p ends
PipeHandlerEnvironmentEnds ==
    \E p \in Pipes, e \in ProcessEnds :
        /\ pipes[p].pc = "handler_env_running"
        /\ RunReturns(e)
        /\ IF Succeeded(e)
           THEN /\ tree' = tree \cup { AtRoot(EnvDir(Lower(pipes[p].language))) }
                /\ pipes' = [pipes EXCEPT ![p].pc = "cmds"]
           ELSE /\ UNCHANGED tree
                /\ PipeEnds(p, HandlerExcept(RunError(e)))
        /\ UNCHANGED << content, callVars, buildVars, cacheVars, downloadVars >>

\* the loop over build_commands of the handler of pipeline p: the process
\* of the next command is started, or the handler returns True
PipeNextCommand ==
    \E p \in Pipes :
        /\ pipes[p].pc = "cmds"
        /\ IF pipes[p].left > 0
           THEN pipes' = [pipes EXCEPT ![p].pc = "cmd_running"]
           ELSE PipeEnds(p, Ret("True"))
        /\ UNCHANGED << fsVars, callVars, buildVars, cacheVars, downloadVars >>

\* the process of a build command of pipeline p ends
PipeCommandEnds ==
    \E p \in Pipes, e \in ProcessEnds :
        /\ pipes[p].pc = "cmd_running"
        /\ RunReturns(e)
        /\ IF Succeeded(e)
           THEN pipes' = [pipes EXCEPT ![p].pc = "cmds",
                                       ![p].left = pipes[p].left - 1]
           ELSE PipeEnds(p, HandlerExcept(RunError(e)))
        /\ UNCHANGED << fsVars, callVars, buildVars, cacheVars, downloadVars >>

\* pipeline p calls _handle_build_failure(repo_path, error), which starts
\* with _clean_build_artifacts
PipeCallHandleBuildFailure ==
    \E p \in Pipes :
        /\ pipes[p].pc = "idle"
        /\ pipes' = [pipes EXCEPT ![p].pc = "clean_running", ![p].depth = 1]
        /\ UNCHANGED << fsVars, callVars, buildVars, cacheVars, downloadVars >>

\* _clean_build_artifacts of pipeline p has removed what it removes
PipeCleanBuildArtifactsEnds ==
    \E p \in Pipes, failAt \in 0..Len(build_dirs) :
        /\ pipes[p].pc = "clean_running"
        /\ failAt > 0 => Exists(tree, build_dirs[failAt])
        /\ LET last == IF failAt = 0 THEN Len(build_dirs) ELSE failAt - 1
           IN  tree' = tree \ { AtRoot(build_dirs[j]) : j \in 1..last }
        /\ pipes' = [pipes EXCEPT ![p].pc = "modify"]
        /\ UNCHANGED << content, callVars, buildVars, cacheVars, downloadVars >>

\* _handle_build_failure of pipeline p after the cleanup:
\* _modify_build_instructions and the call of execute_build
PipeRetryBuild ==
    \E p \in Pipes :
        /\ pipes[p].pc = "modify"
        /\ LET m == ModifyBuildInstructions(tree, content)
           IN  IF m.kind = "raise"
               THEN PipeEnds(p, m)
               ELSE pipes' = [pipes EXCEPT ![p].pc = "setup_env",
                                           ![p].language = m.value.language,
                                           ![p].left = Len(m.value.build_commands.items)]
        /\ UNCHANGED << fsVars, callVars, buildVars, cacheVars, downloadVars >>

\* the entries of the checkout the two pipelines start on
ConcurrentPaths ==
    { AtRoot(N(".venv", "")), AtRoot(N("node_modules", "")),
      AtRoot(N("requirements", "txt")), AtRoot(N("package", "json")) }

InitConcurrent ==
    /\ tree \in SUBSET ConcurrentPaths
    /\ content = DefaultContent
    /\ call = NoCall
    /\ ret = Pending
    /\ pc = "idle"
    /\ instr = NoInstructions
    /\ cmdIdx = 0
    /\ depth = 0
    /\ attempts = 0
    /\ spawned = << >>
    /\ errlog = << >>
    /\ pipes = IdlePipes
    /\ memory_cache = EmptyMemory
    /\ file_cache = EmptyFiles
    /\ now = 0
    /\ tasks = IdleTasks
    /\ downloads = NoDownloads

NextConcurrent ==
    \/ PipeCallExecuteBuild
    \/ PipeSetupEnvironment
    \/ PipeEnvironmentEnds
    \/ PipeDispatch
    \/ PipeHandlerEnvironmentEnds
    \/ PipeNextCommand
    \/ PipeCommandEnds
    \/ PipeCallHandleBuildFailure
    \/ PipeCleanBuildArtifactsEnds
    \/ PipeRetryBuild

SpecConcurrent == InitConcurrent /\ [][NextConcurrent]_vars

(***************************************************************************)
(* CacheManager called by two tasks of one event loop.  A task gives way   *)
(* to the other one only where a call awaits: cache_result awaits          *)
(* aiofiles.open and the write, invalidate_cache awaits nothing.  The file *)
(* operations succeed here.                                                *)
(***************************************************************************)
\* the slot the call of task t is about
Slot(t) == [category |-> tasks[t].category, key |-> tasks[t].key]

\* cache_result of task t up to 'async with aiofiles.open': the timestamp
\* is set and the memory cache is updated
TaskCacheResultBegins ==
    \E t \in Tasks, k \in CacheKeys, d \in CacheData :
        /\ tasks[t].pc = "idle"
        /\ memory_cache' =
             [memory_cache EXCEPT ![k] =
                 [present |-> TRUE, data |-> d, cached_at |-> now]]
        /\ tasks' = [tasks EXCEPT ![t] =
                        [pc |-> "opening", key |-> k.key, category |-> k.category,
                         data |-> d, cached_at |-> now, detached |-> FALSE]]
        /\ UNCHANGED << file_cache, now >>
        /\ UNCHANGED << fsVars, callVars, buildVars, concVars, downloadVars >>

\* aiofiles.open(cache_file, 'w') of task t: the file is created, or
\* emptied when it exists
TaskCacheResultOpens ==
    \E t \in Tasks :
        /\ tasks[t].pc = "opening"
        /\ file_cache' =
             [file_cache EXCEPT ![Slot(t)] =
                 [state |-> "corrupt", data |-> "", cached_at |-> 0]]
        /\ tasks' = [tasks EXCEPT ![t].pc = "writing"]
        /\ UNCHANGED << memory_cache, now >>
        /\ UNCHANGED << fsVars, callVars, buildVars, concVars, downloadVars >>

\* f.write(json.dumps(data)) of task t and the end of its cache_result: what
\* is written to a file that was removed meanwhile is lost, otherwise the
\* file holds what was written last
TaskCacheResultWrites ==
    \E t \in Tasks :
        /\ tasks[t].pc = "writing"
        /\ file_cache' =
             IF tasks[t].detached THEN file_cache
             ELSE [file_cache EXCEPT ![Slot(t)] =
                      [state |-> "valid", data |-> tasks[t].data,
                       cached_at |-> tasks[t].cached_at]]
        /\ tasks' = [tasks EXCEPT ![t] = IdleTask]
        /\ UNCHANGED << memory_cache, now >>
        /\ UNCHANGED << fsVars, callVars, buildVars, concVars, downloadVars >>

\* invalidate_cache of task t, which has no await: the memory entry is
\* popped and the file removed; a task that has the file open keeps
\* writing to the removed file
TaskInvalidateCache ==
    \E t \in Tasks, k \in CacheKeys :
        /\ tasks[t].pc = "idle"
        /\ memory_cache' = [memory_cache EXCEPT ![k] = NoEntry]
        /\ file_cache' = [file_cache EXCEPT ![k] = NoFile]
        /\ tasks' = [u \in Tasks |->
                        IF tasks[u].pc = "writing" /\ Slot(u) = k
                           /\ file_cache[k].state # "absent"
                        THEN [tasks[u] EXCEPT !.detached = TRUE]
                        ELSE tasks[u]]
        /\ UNCHANGED now
        /\ UNCHANGED << fsVars, callVars, buildVars, concVars, downloadVars >>

\* time passes
TaskTick ==
    /\ now < MaxNow
    /\ now' = now + 1
    /\ UNCHANGED << fsVars, callVars, buildVars, concVars, downloadVars,
                    memory_cache,
                    file_cache, tasks >>

NextCacheTasks ==
    \/ TaskCacheResultBegins
    \/ TaskCacheResultOpens
    \/ TaskCacheResultWrites
    \/ TaskInvalidateCache
    \/ TaskTick

SpecCacheTasks == InitCache /\ [][NextCacheTasks]_vars

(***************************************************************************)
(* download_repository                                                     *)
(***************************************************************************)
\* largest number of download_repository calls the model follows
MaxDownloads == 3

Owners == { "alice", "bob" }

RepoNames == { "utils", "app" }

\* a Repository as repo_analyzer builds it from the GitHub API: name is the
\* bare name, full_name is owner/name
Repository(owner, name) ==
    [name |-> name, full_name |-> << owner, "/", name >>]

Repositories == { Repository(o, n) : o \in Owners, n \in RepoNames }

\* config.build.base_download_dir
base_download_dir == "downloads"

\* os.path.join(base_download_dir, repository.name)
RepoDir(repository) == << base_download_dir, repository.name >>

DownloadDirs == { RepoDir(r) : r \in Repositories }

\* how the network part of Repo.clone_from ends
CloneEnds == { "ok", "fails" }

\* a caller invokes download_repository(repository): os.makedirs creates
\* the directory when it is missing, and git clones into it unless it
\* holds a clone already; a failing clone leaves the directory empty
CallDownloadRepository ==
    /\ pc = "idle"
    /\ Len(downloads.log) < MaxDownloads
    /\ \E r \in Repositories, c \in CloneEnds :
         LET dir == RepoDir(r)
             cloned == downloads.dirs[dir].state # "cloned" /\ c = "ok"
             o == IF cloned THEN Ret(dir)
                  ELSE RaiseMsg("BuildError", "Download failed")
         IN  /\ downloads' =
                  [dirs |-> [downloads.dirs EXCEPT ![dir] =
                                IF cloned
                                THEN [state |-> "cloned", full_name |-> r.full_name]
                                ELSE IF @.state = "absent"
                                THEN [state |-> "empty", full_name |-> << >>]
                                ELSE @],
                   log |-> Append(downloads.log,
                                  [full_name |-> r.full_name, repo_dir |-> dir,
                                   outcome |-> o])]
             /\ call' = [op |-> "download_repository", language |-> ""]
             /\ ret' = o
    /\ UNCHANGED << fsVars, buildVars, concVars, cacheVars >>

InitDownload ==
    /\ tree = {}
    /\ content = DefaultContent
    /\ call = NoCall
    /\ ret = Pending
    /\ pc = "idle"
    /\ instr = NoInstructions
    /\ cmdIdx = 0
    /\ depth = 0
    /\ attempts = 0
    /\ spawned = << >>
    /\ errlog = << >>
    /\ pipes = IdlePipes
    /\ memory_cache = EmptyMemory
    /\ file_cache = EmptyFiles
    /\ now = 0
    /\ tasks = IdleTasks
    /\ downloads = NoDownloads

NextDownload == CallDownloadRepository

SpecDownload == InitDownload /\ [][NextDownload]_vars

(***************************************************************************)
(* Properties of build execution (specification Spec).                     *)
(***************************************************************************)
HasHandler(language) == Lower(language) \in DOMAIN build_handlers

\* the processes that ran build commands in attempt a, in spawn order
IsCommandOf(a, p) == p.idx >= 1 /\ p.attempt = a

\* some build command of attempt a exited non-zero
CommandFailedIn(a) ==
    \E i \in 1..Len(spawned) :
        /\ IsCommandOf(a, spawned[i])
        /\ spawned[i].end.kind = "exit"
        /\ spawned[i].end.status # 0

\* C1: when a build command exits non-zero in the first attempt of
\* execute_build, the pipeline re-enters the executor exactly once: the
\* call ends after exactly two execution attempts, and it returns failure
\* when the retry fails as well.
C1_FailureRetriedOnce ==
    (call.op = "execute_build" /\ pc = "done" /\ CommandFailedIn(1))
        => attempts = 2

\* C2: in every run the number of execution attempts is at most two, and
\* _handle_build_failure is never entered again from within a retry.
C2_AtMostTwoAttempts == attempts <= 2 /\ depth <= 1

\* a retry whose command failed has ended, and nothing was retried again
C2_Witness ==
    /\ call.op = "_handle_build_failure"
    /\ pc = "done"
    /\ attempts = 1
    /\ CommandFailedIn(1)
    /\ ret = Ret("False")

\* C3: when the lowercased language of the instructions has no registered
\* handler, execute_build spawns no process, leaves the tree as it is, never
\* reaches the cleanup or a retry, and ends by raising the
\* unsupported-language BuildError.
C3_UnsupportedLanguage ==
    [][ (call'.op = "execute_build" /\ ~HasHandler(instr'.language))
        => /\ spawned' = << >>
           /\ tree' = tree
           /\ pc' \in { "setup_env", "dispatch", "done" }
           /\ attempts' = 1
           /\ depth' = 0
           /\ pc' = "done" => ret' = RaiseMsg("BuildError", "Unsupported language")
      ]_vars

C3_Witness ==
    /\ call.op = "execute_build"
    /\ instr.language = "cobol"
    /\ pc = "done"
    /\ ret = RaiseMsg("BuildError", "Unsupported language")

\* the build-command processes of the current attempt
CommandRuns == SelectSeq(spawned, LAMBDA p : IsCommandOf(attempts, p))

\* the arguments the handler of the current instructions runs command j with
HandlerArgv(j) ==
    IF build_handlers[Lower(instr.language)] = "_handle_python_build"
    THEN << PipPath >> \o instr.build_commands.items[j].words
    ELSE instr.build_commands.items[j].words

ExitedNonZero(p) == p.end.kind = "exit" /\ p.end.status # 0

C5_SuccessForEveryHandler ==
    (/\ call.op = "execute_build"
     /\ pc = "done"
     /\ HasHandler(instr.language)
     /\ ~instr.build_commands.isNone
     /\ \A i \in 1..Len(spawned) : Succeeded(spawned[i].end))
        => ret = Ret("True")

(***************************************************************************)
(* Properties of detection and analysis (specification SpecDetect).        *)
(***************************************************************************)
\* C6: every BuildInstructions returned by detect_build_instructions has
\* dependencies, setup_steps, build_commands and test_commands each a
\* sequence (possibly empty), never None.
C6_SequencesNeverNone ==
    (call.op = "detect_build_instructions" /\ ret.kind = "return")
        => /\ ~ret.value.dependencies.isNone
           /\ ~ret.value.setup_steps.isNone
           /\ ~ret.value.build_commands.isNone
           /\ ~ret.value.test_commands.isNone

LangIndexes == 1..Len(Languages)

NoLanguageMatches == \A i \in LangIndexes : LangCount(tree, Languages[i]) = 0

\* C7: when no entry of the tree matches any pattern of any language,
\* _detect_primary_language returns 'unknown'.
C7_UnknownWhenNoMatch ==
    (call.op = "_detect_primary_language" /\ NoLanguageMatches)
        => ret = Ret("unknown")

\* C8: when some language has a non-zero count, _detect_primary_language
\* returns a language of the highest count, and the first declared one
\* among those that share the highest count.
C8_HighestCountFirstDeclared ==
    (call.op = "_detect_primary_language" /\ ~NoLanguageMatches)
        => \E k \in LangIndexes :
             /\ ret = Ret(Languages[k])
             /\ \A i \in LangIndexes :
                  LangCount(tree, Languages[i]) <= LangCount(tree, Languages[k])
             /\ \A i \in 1..(k - 1) :
                  LangCount(tree, Languages[i]) < LangCount(tree, Languages[k])

\* two languages other than the first share the highest count and the
\* earlier one is returned
C8_Witness ==
    /\ call.op = "_detect_primary_language"
    /\ \E k \in LangIndexes, i \in LangIndexes :
         /\ 1 < k /\ k < i
         /\ ret = Ret(Languages[k])
         /\ LangCount(tree, Languages[k]) > 0
         /\ LangCount(tree, Languages[i]) = LangCount(tree, Languages[k])

\* the markers of the language the call was made with
MarkersOf(language) ==
    IF language \in DOMAIN build_systems THEN build_systems[language] ELSE << >>

\* C9: _detect_build_system returns the build system of the first marker, in
\* table order of the language, that is present at the repository root, and
\* 'unknown' when none is or the language has no table entry; entries below
\* the root and entries that are not markers do not matter.
C9_FirstRootMarker ==
    call.op = "_detect_build_system"
        => LET markers == MarkersOf(call.language)
               present == { i \in 1..Len(markers) : AtRoot(markers[i].file) \in tree }
           IN  IF present = {}
               THEN ret = Ret("unknown")
               ELSE \E i \in present :
                      /\ \A j \in present : i <= j
                      /\ ret = Ret(markers[i].system)

\* the first marker of python is present only below the root, the second
\* and third are at the root, and the second decides
C9_Witness ==
    /\ call = [op |-> "_detect_build_system", language |-> "python"]
    /\ P("sub", N("setup", "py")) \in tree
    /\ AtRoot(N("setup", "py")) \notin tree
    /\ AtRoot(N("pyproject", "toml")) \in tree
    /\ AtRoot(N("requirements", "txt")) \in tree
    /\ ret = Ret("poetry")

\* a manifest the analyzer named op reads cannot be read or parsed
ManifestFails(op) ==
    IF op = "_analyze_python_dependencies"
    THEN \/ Exists(tree, N("requirements", "txt")) /\ ~content.requirements.readable
         \/ Exists(tree, N("setup", "py")) /\ ~content.setup.readable
    ELSE IF op = "_analyze_javascript_dependencies"
    THEN /\ Exists(tree, N("package", "json"))
         /\ \/ ~content.package.readable
            \/ content.package.json.kind # "object"
            \/ content.package.json.dependencies.kind = "nonobject"
            \/ content.package.json.devDependencies.kind = "nonobject"
    ELSE IF op = "_analyze_go_dependencies"
    THEN Exists(tree, N("go", "mod")) /\ ~content.gomod.readable
    ELSE /\ Exists(tree, N("Cargo", "toml"))
         /\ \/ ~content.cargo.readable
            \/ content.cargo.toml.kind # "table"
            \/ content.cargo.toml.dependencies.kind = "nontable"

Analyzers ==
    { "_analyze_python_dependencies", "_analyze_javascript_dependencies",
      "_analyze_go_dependencies", "_analyze_rust_dependencies" }

\* C10: the python, javascript, go and rust analyzers never raise; each
\* returns a list, which is empty when a manifest cannot be read or parsed,
\* and detect_build_instructions completes whatever the manifests hold.
C10_AnalyzersNeverRaise ==
    /\ call.op \in Analyzers
         => /\ ret.kind = "return"
            /\ ~ret.value.isNone
            /\ ManifestFails(call.op) => ret.value.items = << >>
    /\ call.op = "detect_build_instructions" => ret.kind = "return"

\* requirements.txt was read and holds a dependency, setup.py cannot be
\* read, and the python analyzer returned the empty list
C10_Witness ==
    /\ call.op = "_analyze_python_dependencies"
    /\ Exists(tree, N("requirements", "txt"))
    /\ content.requirements.readable
    /\ StrippedNonBlank(content.requirements.lines) # << >>
    /\ Exists(tree, N("setup", "py"))
    /\ ~content.setup.readable
    /\ ret = Ret(List(<< >>))

(***************************************************************************)
(* Properties of the instructions of a retry.                              *)
(***************************************************************************)
\* the descriptor holds the exact-pin operator '=='
ContainsEqEq(d) == \E i \in 1..(Len(d) - 1) : d[i] = "=" /\ d[i + 1] = "="

\* the descriptors the analyzer of the detected language reads from the tree
AnalyzedDescriptors ==
    AnalyzeDependencies(tree, content, DetectPrimaryLanguage(tree)).value.items

\* C11: _modify_build_instructions keeps the number and order of the
\* dependency descriptors, leaves a descriptor without '==' unchanged, and
\* no descriptor of the relaxed instructions still holds '=='.
C11_NoExactPinRemains ==
    (call.op = "_modify_build_instructions" /\ ret.kind = "return")
        => LET relaxed == ret.value.dependencies.items
           IN  /\ Len(relaxed) = Len(AnalyzedDescriptors)
               /\ \A i \in 1..Len(relaxed) :
                    /\ ~ContainsEqEq(AnalyzedDescriptors[i])
                         => relaxed[i] = AnalyzedDescriptors[i]
                    /\ ~ContainsEqEq(relaxed[i])

\* the processes spawned since the recovery cycle synthesized instructions
RecoveryRuns == SelectSeq(spawned, LAMBDA p : p.attempt >= 1)

\* C12: the instructions synthesized for a retry have empty test_commands
\* for every detected language and build system, and every process of the
\* recovery cycle is the environment creation of a handler or one of the
\* synthesized build_commands, never a test command.
C12_RetryRunsNoTests ==
    (call.op = "_handle_build_failure" /\ attempts >= 1)
        => /\ instr.test_commands = List(<< >>)
           /\ \A i \in 1..Len(RecoveryRuns) :
                IF RecoveryRuns[i].idx = 0
                THEN RecoveryRuns[i].argv \in { VenvArgv, NpmInstallArgv }
                ELSE /\ RecoveryRuns[i].idx \in 1..Len(instr.build_commands.items)
                     /\ RecoveryRuns[i].argv = HandlerArgv(RecoveryRuns[i].idx)

\* a recovery cycle ran both synthesized build commands to the end
C12_Witness ==
    /\ call.op = "_handle_build_failure"
    /\ pc = "done"
    /\ ret = Ret("True")
    /\ Len(RecoveryRuns) = 3
    /\ RecoveryRuns[3].idx = 2

\* C13: when the original attempt and the single retry have both failed, the
\* terminal outcome carries the original failure reason and the retry
\* failure reason and records that a retry happened.
C13_TerminalOutcomeCarriesBothReasons ==
    (call.op = "_handle_build_failure" /\ pc = "done" /\ CommandFailedIn(1))
        => /\ "original_reason" \in DOMAIN ret
           /\ "retry_reason" \in DOMAIN ret
           /\ "retried" \in DOMAIN ret

\* C14: a build command that does not finish within the configured timeout
\* is treated as a failed command, so no call is left waiting in
\* subprocess.run for a process that never exits (a call that waits there
\* has no further step and never returns).
C14_HungCommandIsFailed ==
    \A i \in 1..Len(spawned) :
        (spawned[i].idx >= 1 /\ spawned[i].end.kind = "hang") => pc # "blocked"

\* C19: every process that runs a build command is started with the
\* repository root as its working directory, for every handler and in the
\* original attempt as well as in a retry.
C19_CommandsRunInRepositoryRoot ==
    \A i \in 1..Len(spawned) :
        spawned[i].idx >= 1 => spawned[i].cwd = "repo"

\* C20: the environment-creation process of a handler (python -m venv,
\* npm install) is spawned only while the environment directory (.venv,
\* node_modules) does not exist.
C20_EnvironmentCreatedOnlyWhenAbsent ==
    [][ (Len(spawned') = Len(spawned) + 1 /\ spawned'[Len(spawned')].idx = 0)
        => LET p == spawned'[Len(spawned')]
           IN  /\ p.argv = VenvArgv => ~Exists(tree, N(".venv", ""))
               /\ p.argv = NpmInstallArgv => ~Exists(tree, N("node_modules", ""))
      ]_vars

\* the checkout holds go.mod at its root and nothing but go.mod and *.go
GoOnly(t) ==
    /\ Exists(t, N("go", "mod"))
    /\ \A f \in t : f.name = N("go", "mod") \/ f.name.ext = "go"

\* a line without its leading and trailing spaces, by positions
Trimmed(line) ==
    LET inked == { i \in 1..Len(line) : line[i] # Space }
    IN  IF inked = {} THEN << >>
        ELSE SubSeq(line, CHOOSE i \in inked : \A j \in inked : i <= j,
                          CHOOSE i \in inked : \A j \in inked : j <= i)

\* the trimmed non-blank lines of a text, read token by token: cur is the
\* line being read and acc the lines already complete
RECURSIVE ReadLines(_, _, _)
ReadLines(text, cur, acc) ==
    LET done == IF Trimmed(cur) = << >> THEN acc ELSE Append(acc, Trimmed(cur))
    IN  IF text = << >> THEN done
        ELSE IF Head(text) = NL THEN ReadLines(Tail(text), << >>, done)
        ELSE ReadLines(Tail(text), Append(cur, Head(text)), acc)

\* what lies inside the first 'require (' block of a text: from behind the
\* first 'require (' to before the first ')' after it; a block that is not
\* closed ends at the next 'require (' or at the end of the text
FirstBlock(text) ==
    LET open == CHOOSE i \in 1..Len(text) :
                    text[i] = ReqOpen /\ \A j \in 1..(i - 1) : text[j] # ReqOpen
        ends == { i \in (open + 1)..Len(text) : text[i] \in { Close, ReqOpen } }
        end  == IF ends = {} THEN Len(text) + 1
                ELSE CHOOSE i \in ends : \A j \in ends : i <= j
    IN  SubSeq(text, open + 1, end - 1)

ExpectedGoDependencies(text) ==
    IF \E i \in 1..Len(text) : text[i] = ReqOpen
    THEN ReadLines(FirstBlock(text), << >>, << >>)
    ELSE << >>

\* C17: for a checkout that holds only go.mod (at its root) and *.go files,
\* detect_build_instructions yields language 'go' and build_system 'go', and
\* the Go analyzer returns exactly the non-blank lines inside the first
\* 'require (' block of a readable go.mod, each trimmed, in file order;
\* what lies outside that block and later blocks contribute nothing.
C17_GoScenario ==
    /\ (call.op = "detect_build_instructions" /\ GoOnly(tree)
            /\ content.gomod.readable)
         => /\ ret.kind = "return"
            /\ ret.value.language = "go"
            /\ ret.value.build_system = "go"
            /\ ret.value.dependencies
                 = List(ExpectedGoDependencies(content.gomod.text))
    /\ (call.op = "_analyze_go_dependencies" /\ Exists(tree, N("go", "mod"))
            /\ content.gomod.readable)
         => ret = Ret(List(ExpectedGoDependencies(content.gomod.text)))

\* detection on go.mod and main.go, where go.mod holds one dependency in a
\* first block and another one in a second block
C17_Witness ==
    /\ call.op = "detect_build_instructions"
    /\ tree = { AtRoot(N("go", "mod")), AtRoot(N("main", "go")) }
    /\ content.gomod.readable
    /\ content.gomod.text = << ReqOpen, "d", Close, ReqOpen >>
    /\ ret.kind = "return"
    /\ ret.value.dependencies = List(<< << "d" >> >>)

\* the groups of a package.json that json.load turns into an object whose
\* 'dependencies' and 'devDependencies' are objects or missing
WellFormedPackage ==
    /\ Exists(tree, N("package", "json"))
    /\ content.package.readable
    /\ content.package.json.kind = "object"
    /\ content.package.json.dependencies.kind # "nonobject"
    /\ content.package.json.devDependencies.kind # "nonobject"

\* C18: for a package.json the JavaScript analyzer emits name@version for
\* every entry of dependencies in declaration order, followed by
\* name@version for every entry of devDependencies in declaration order; a
\* missing group contributes nothing.
C18_DependenciesThenDevDependencies ==
    (call.op = "_analyze_javascript_dependencies" /\ WellFormedPackage)
        => LET deps == content.package.json.dependencies.entries
               dev  == content.package.json.devDependencies.entries
           IN  /\ ret.kind = "return"
               /\ ~ret.value.isNone
               /\ Len(ret.value.items) = Len(deps) + Len(dev)
               /\ \A i \in 1..Len(deps) :
                    ret.value.items[i]
                       = deps[i].name \o << "@" >> \o deps[i].version
               /\ \A i \in 1..Len(dev) :
                    ret.value.items[Len(deps) + i]
                       = dev[i].name \o << "@" >> \o dev[i].version

\* dependencies {p: 1} and devDependencies {q: 1} give [p@1, q@1]
C18_Witness ==
    /\ call.op = "_analyze_javascript_dependencies"
    /\ WellFormedPackage
    /\ content.package.json.dependencies.entries
         = << [name |-> << "p" >>, version |-> << "1" >>] >>
    /\ content.package.json.devDependencies.entries
         = << [name |-> << "q" >>, version |-> << "1" >>] >>
    /\ ret = Ret(List(<< << "p", "@", "1" >>, << "q", "@", "1" >> >>))

\* C16: get_cached_result returns cached data only when the entry is not
\* older than cache_ttl, whether the entry is held in the memory cache or
\* only in the file cache.
C16_ReturnedEntryNotExpired ==
    (call.op = "get_cached_result" /\ pc = "done" /\ ret.kind = "return"
        /\ ~ret.value.isNone)
        => now - ret.value.cached_at <= CacheTtl

\* pipeline p is inside a mutating step: a process it started for the
\* environment or for a build command has not ended, or its removal of the
\* artifacts has not ended
Mutating(p) ==
    pipes[p].pc \in { "env_running", "handler_env_running", "cmd_running",
                      "clean_running" }

\* C15: the mutating steps of two pipelines on the same checkout never
\* overlap: at most one pipeline is inside a mutating step at any time.
C15_MutatingStepsSerialized ==
    Cardinality({ p \in Pipes : Mutating(p) }) <= 1

\* the process _setup_environment started could not be started or exited
\* with a non-zero status
PreparationFailed(p) ==
    /\ p.by = "_setup_environment"
    /\ RunReturns(p.end)
    /\ ~Succeeded(p.end)

\* C21: when environment preparation fails in an execution attempt, no
\* handler is dispatched to and no build command runs in that attempt,
\* preparation is not repeated in it, and the attempt ends with the
\* BuildError of _setup_environment: execute_build raises it to its caller,
\* and inside a recovery cycle _handle_build_failure turns it into False.
C21_PreparationFailureIsFatal ==
    \A i \in 1..Len(spawned) :
        PreparationFailed(spawned[i])
            => /\ i = Len(spawned)
               /\ \A j \in 1..Len(spawned) :
                    spawned[j].attempt = spawned[i].attempt => j = i
               /\ pc = "done"
               /\ ret = IF call.op = "execute_build"
                        THEN RaiseMsg("BuildError", "Failed to setup environment")
                        ELSE Ret("False")

\* npm install of _setup_environment exited non-zero in a first attempt
C21_Witness ==
    /\ call.op = "execute_build"
    /\ Len(spawned) = 1
    /\ spawned[1].argv = NpmInstallArgv
    /\ PreparationFailed(spawned[1])
    /\ spawned[1].end.kind = "exit"
    /\ ret = RaiseMsg("BuildError", "Failed to setup environment")

\* the names of the artifact directories
ArtifactNames == { "build", "dist", "target", "node_modules", "__pycache__" }

IsRootArtifact(f) ==
    f.loc = "root" /\ f.name.stem \in ArtifactNames /\ f.name.ext = ""

\* C22: when no I/O error occurs, _clean_build_artifacts removes exactly the
\* entries build, dist, target, node_modules and __pycache__ that exist at
\* the repository root, leaves every other entry untouched (same-named
\* directories below the root included) and raises nothing, whichever of
\* them are missing.
C22_CleanupRemovesExactlyRootArtifacts ==
    [][ (pc = "cleaning" /\ pc' # "cleaning" /\ errlog' = errlog)
        => /\ tree' = { f \in tree : ~IsRootArtifact(f) }
           /\ content' = content
           /\ ret' = ret
           /\ pc' = "modify"
      ]_vars

\* a cleanup without I/O error has left nothing at the root but the manifest
\* and has kept the build directory below the root
C22_Witness ==
    /\ call.op = "_handle_build_failure"
    /\ pc = "modify"
    /\ errlog = << >>
    /\ tree = { P("sub", N("build", "")), AtRoot(N("package", "json")) }

\* the last entry of the log is the warning of _clean_build_artifacts
CleanupErrorLogged(lg) ==
    /\ lg # << >>
    /\ lg[Len(lg)].level = "warning"
    /\ lg[Len(lg)].msg = "Failed to clean build artifacts"

LastProcessFailed ==
    /\ spawned # << >>
    /\ RunReturns(spawned[Len(spawned)].end)
    /\ ~Succeeded(spawned[Len(spawned)].end)

\* C24: once _handle_build_failure has been entered, no exception leaves
\* it and no further attempt is started: it ends with a returned value, and
\* with False whenever the synthesis of the relaxed instructions failed or
\* the retry hit an error (a preparation failure, a process that cannot be
\* started, a failing command, a language without handler).
C24_RecoveryReturnsFalseOnError ==
    call.op = "_handle_build_failure"
        => /\ ret.kind # "raise"
           /\ attempts <= 1
           /\ depth <= 1
           /\ pc = "done"
                => /\ ret \in { Ret("True"), Ret("False"), Ret("None") }
                   /\ depth = 0
                   /\ (attempts = 0 \/ LastProcessFailed
                         \/ Lower(instr.language) \notin DOMAIN build_handlers)
                        => ret = Ret("False")

\* the retry could not start the process of its handler: the OSError ends
\* the recovery with False
C24_Witness ==
    /\ call.op = "_handle_build_failure"
    /\ pc = "done"
    /\ attempts = 1
    /\ spawned # << >>
    /\ spawned[Len(spawned)].by = "_handle_python_build"
    /\ spawned[Len(spawned)].end.kind = "oserror"
    /\ ret = Ret("False")

\* the memory entry and the file of slot k hold the same data, or there is
\* neither
MemoryMatchesFile(k) ==
    \/ /\ memory_cache[k].present
       /\ file_cache[k].state = "valid"
       /\ file_cache[k].data = memory_cache[k].data
       /\ file_cache[k].cached_at = memory_cache[k].cached_at
    \/ /\ ~memory_cache[k].present
       /\ file_cache[k].state = "absent"

\* C25: cache_result and invalidate_cache calls for one key that run
\* concurrently never interleave their memory and file updates: once every
\* call has completed, the memory entry and the file of the key hold the
\* same data or are both absent.
C25_WritesGuardedPerKey ==
    (\A t \in Tasks : tasks[t].pc = "idle")
        => \A k \in CacheKeys : MemoryMatchesFile(k)

\* requirements.txt exists and pins a dependency with '=='
ManifestPinsExactly ==
    /\ Exists(tree, N("requirements", "txt"))
    /\ \E i \in 1..Len(content.requirements.lines) :
          ContainsEqEq(content.requirements.lines[i])

\* the process installs from the manifest as it stands in the checkout
InstallsFromManifest(p) ==
    \E j \in 1..Len(p.argv) : p.argv[j] = "requirements.txt"

\* C26: the dependency installation executed in the retry uses the relaxed
\* constraints of _modify_build_instructions: when the manifest pins a
\* dependency with '==', no process of the retry installs from the manifest
\* with its exact pins.
C26_RetryInstallsRelaxedConstraints ==
    (call.op = "_handle_build_failure" /\ attempts >= 1 /\ ManifestPinsExactly)
        => \A i \in 1..Len(RecoveryRuns) : ~InstallsFromManifest(RecoveryRuns[i])

\* C27: download_repository maps repositories with distinct full_name to
\* distinct local paths under the download root.
C27_DistinctRepositoriesDistinctPaths ==
    \A i, j \in 1..Len(downloads.log) :
        downloads.log[i].full_name # downloads.log[j].full_name
            => downloads.log[i].repo_dir # downloads.log[j].repo_dir

\* C28: a cache_result that fails with CacheError leaves the cache as it
\* was: for every key and category a following get_cached_result returns
\* what it would have returned before the failed call.
C28_FailedWriteLeavesCacheUnchanged ==
    [][ (pc = "idle" /\ pc' = "done" /\ call'.op = "cache_result"
            /\ ret'.kind = "raise")
        => \A k \in CacheKeys :
              GetCachedResultValue(memory_cache', file_cache', now', k)
                = GetCachedResultValue(memory_cache, file_cache, now, k)
      ]_vars

====
